---- MODULE Spec2Model ----
(***************************************************************************)
(* swamp: the credential exchange cycle of src/swamp.go.                   *)
(*                                                                         *)
(* One process, one control thread.  pc is the position of main(); every   *)
(* action is one call of swamp.go together with the error handling that    *)
(* follows it (die = os.Exit(1), session.Must = panic).  The STS provider, *)
(* the MFA source and the file system are the environment: each call picks *)
(* its outcome nondeterministically.                                       *)
(*                                                                         *)
(* Strings that the code takes apart (the MFA input, the caller ARN) are   *)
(* sequences of atoms; an atom is one character or a run of characters     *)
(* holding no separator and no blank.                                      *)
(***************************************************************************)
EXTENDS Integers, Sequences, FiniteSets, TLC

VARIABLES
    config,          \* SwampConfig, read-only after flag.Parse
    pwReady,         \* main's pw: NewProfileWriter has returned a writer
    initial,         \* the profile store and the export file as the run found them
    userId,          \* ensureTargetProfile's userId: the caller's ARN
    pc,              \* position of main()
    exitCode,        \* -1 while running; 0 return of main, 1 os.Exit(1), 2 panic
    failure,         \* the last error met by the run, "none" if none
    baseProfile,     \* main's baseProfile (swamp.go:165-169)
    cycle,           \* iterations of the for loop started so far
    trace,           \* calls made in the current iteration, in order
    valid,           \* result of validateSessionToken in this iteration
    lookupErr,       \* err of the identity lookup in validateSessionToken
    tokenCode,       \* getSessionToken's tokenCode
    cred,            \* the *sts.Credentials held by the current step (0: none)
    nextCred,        \* the next credentials the provider hands out
    request,         \* the last request sent to the provider
    sessProfile,     \* profile of main's sess (swamp.go:182)
    roleSessionName, \* ensureTargetProfile's roleSessionName
    store,           \* ~/.aws/credentials: section name -> section
    store0,          \* the store as it was when the current iteration began
    exportFile,      \* lines of config.exportFile
    slept            \* seconds of each time.Sleep of the run, in order

vars == <<config, pwReady, initial, userId, pc, exitCode, failure, baseProfile, cycle, trace, valid,
          lookupErr, tokenCode, cred, nextCred, request, sessProfile, roleSessionName,
          store, store0, exportFile, slept>>

-----------------------------------------------------------------------------
(* Bounds *)

MaxCycles == 2

-----------------------------------------------------------------------------
(* Strings *)

Last(s) == s[Len(s)]

\* strings.Trim(tokenCode, " \r\n") (swamp.go:32): drop leading and trailing
\* atoms that are in the cutset.
CutSet == {" ", "\r", "\n"}

RECURSIVE TrimLeft(_)
TrimLeft(s) ==
    IF s # <<>> /\ Head(s) \in CutSet THEN TrimLeft(Tail(s)) ELSE s

RECURSIVE TrimRight(_)
TrimRight(s) ==
    IF s # <<>> /\ Last(s) \in CutSet
    THEN TrimRight(SubSeq(s, 1, Len(s) - 1))
    ELSE s

cleanTokenCode(s) == TrimRight(TrimLeft(s))

\* strings.Split(s, "/") (swamp.go:134): the pieces between separators; a
\* string without separator is its own single piece.
RECURSIVE SplitAcc(_, _, _)
SplitAcc(s, cur, acc) ==
    IF s = <<>> THEN Append(acc, cur)
    ELSE IF Head(s) = "/" THEN SplitAcc(Tail(s), <<>>, Append(acc, cur))
    ELSE SplitAcc(Tail(s), Append(cur, Head(s)), acc)

Split(s) == SplitAcc(s, <<>>, <<>>)

\* parts[0] taken for the last part
RoleSessionNameOf_First(arn) == Head(Split(arn))

\* parts[len(parts)-1] (swamp.go:135)
RoleSessionNameOf(arn) == Last(Split(arn))

-----------------------------------------------------------------------------
(* Environment: what the operator, the MFA source and the provider supply *)

\* raw output of the MFA command / line read from stdin
RawInputs ==
    { <<"123456", "\n">>,
      <<" ", "123456", " ", "\r", "\n">>,
      <<"\t", "654321", "\n">> }

\* caller identity ARNs returned by sts:GetCallerIdentity
CallerArns ==
    { <<"arn:aws:iam::1:user", "/", "alice">>,
      <<"arn:aws:sts::1:assumed-role", "/", "dev", "/", "bob">>,
      <<"arn:aws:iam::1:root">> }

\* reasons for which the identity lookup of validateSessionToken fails
LookupFailures == {"expired", "missingProfile", "network"}

-----------------------------------------------------------------------------
(* Configuration *)

MinDuration == 900

Configs ==
    [ profile              : {"base"},
      intermediateProfile  : {"inter"},
      targetProfile        : {"target", "base"},
      region               : {"eu-central-1"},
      roleArn              : {"arn:aws:iam::2:role/admin"},
      tokenSerialNumber    : {"", "arn:aws:iam::1:mfa/alice"},
      mfaExec              : {"", "oathtool"},
      intermediateDuration : {43200},
      targetDuration       : {MinDuration - 1, MinDuration, MinDuration + 1},
      exportProfile        : BOOLEAN,
      exportFile           : {"swamp.env"},
      renew                : BOOLEAN ]

\* config.Validate(): the target duration is within the provider's limits.
Validate(c) ==
    /\ c.targetProfile # ""
    /\ c.targetDuration >= MinDuration

-----------------------------------------------------------------------------
(* Profile store *)

SectionNames == {"base", "inter", "target", "other"}

NoSection == [cred |-> -1, region |-> ""]

OldSection == [cred |-> 0, region |-> "us-east-1"]

InitStores ==
    { [n \in SectionNames |-> IF n \in S THEN OldSection ELSE NoSection] :
        S \in { {"base"}, {"base", "other"}, {"base", "inter", "target", "other"} } }

\* pw.WriteProfile(cred, &name, &region): the named section is created or
\* replaced as a whole, every other section is kept.
WriteProfile(st, c, name, region) ==
    [st EXCEPT ![name] = [cred |-> c, region |-> region]]

\* config.targetDuration/2 (swamp.go:193): Go's integer division truncates
\* toward zero.
GoDiv(a, b) == IF a >= 0 THEN a \div b ELSE -((-a) \div b)

Prefixes(s) == { SubSeq(s, 1, n) : n \in 0..Len(s) }

\* the three lines written by writeProfileToFile (swamp.go:150)
ExportLines(c) ==
    << <<"export AWS_PROFILE=", c.targetProfile>>,
       <<"unset AWS_ACCESS_KEY_ID">>,
       <<"unset AWS_SECRET_ACCESS_KEY">> >>

InitExportFiles == { <<>>, << <<"export AWS_PROFILE=", "stale">>, <<"echo old">> >> }

NoRequest ==
    [api |-> "none", profile |-> "", serial |-> "", code |-> <<>>,
     duration |-> 0, roleArn |-> "", name |-> <<>>]

-----------------------------------------------------------------------------
(* Termination *)

\* die(msg, err) (swamp.go:17-20)
Die(kind) ==
    /\ pc' = "exited"
    /\ exitCode' = 1
    /\ failure' = kind

\* session.Must panics when the session cannot be built.
Panic(kind) ==
    /\ pc' = "panicked"
    /\ exitCode' = 2
    /\ failure' = kind

-----------------------------------------------------------------------------
(* Decisions of main and ensureSessionTokenProfile *)

\* the intermediate profile forgotten: the base profile is always used
ChooseBaseProfile_AlwaysBase(c) == c.profile

\* main, swamp.go:165-169
ChooseBaseProfile(c) ==
    IF c.tokenSerialNumber # "" THEN c.intermediateProfile ELSE c.profile

\* the guard on the MFA serial lost
FirstStep_AlwaysCheck(c) == "validateSessionToken"

\* main, swamp.go:176-182: the first call of an iteration
FirstStep(c) ==
    IF c.tokenSerialNumber # "" THEN "validateSessionToken" ELSE "newSession"

\* the refresh path lost: an invalid session goes on to role assumption
AfterCheck_NeverRefresh(isValid) == "newSession"

\* the branches of the validity check swapped
AfterCheck_Swapped(isValid) ==
    IF isValid THEN "getSessionToken" ELSE "newSession"

\* ensureSessionTokenProfile, swamp.go:106-109
AfterCheck(isValid) ==
    IF isValid THEN "newSession" ELSE "getSessionToken"

\* the session token requested on the intermediate profile itself
getBaseSessionOptions_Intermediate(c) == c.intermediateProfile

\* getBaseSessionOptions, swamp.go:93-95: the profile of the session options
getBaseSessionOptions(c) == c.profile

\* getIntermediateSessionOptions, swamp.go:89-91
getIntermediateSessionOptions(c) == c.intermediateProfile

\* the guard on the export flag lost
ExportRequested_Always(c) == TRUE

\* main, swamp.go:186
ExportRequested(c) == c.exportProfile

\* the break lost: the loop goes on whatever renew says
AfterCycle_NoBreak(c) == "sleep"

\* main, swamp.go:190-193: break, or sleep and go round again
AfterCycle(c) ==
    IF ~c.renew THEN "done" ELSE "sleep"

\* the halving lost: sleeps for the whole target duration
SleepSeconds_Whole(c) == c.targetDuration

\* main, swamp.go:193: time.Second * time.Duration(config.targetDuration/2)
SleepSeconds(c) == GoDiv(c.targetDuration, 2)

-----------------------------------------------------------------------------
Init ==
    /\ config \in Configs
    /\ pwReady = FALSE
    /\ userId = <<>>
    /\ pc = "start"
    /\ exitCode = -1
    /\ failure = "none"
    /\ baseProfile = ""
    /\ cycle = 0
    /\ trace = <<>>
    /\ valid = "unknown"
    /\ lookupErr = "nil"
    /\ tokenCode = <<>>
    /\ cred = 0
    /\ nextCred = 1
    /\ request = NoRequest
    /\ sessProfile = ""
    /\ roleSessionName = <<>>
    /\ store \in InitStores
    /\ store0 = store
    /\ exportFile \in InitExportFiles
    /\ initial = [store |-> store, exportFile |-> exportFile]
    /\ slept = <<>>

\* main, swamp.go:155-169: validate the flags, choose the base profile.
ValidateConfig ==
    /\ pc = "start"
    /\ IF Validate(config)
       THEN /\ pc' = "newProfileWriter"
            /\ baseProfile' = ChooseBaseProfile(config)
            /\ UNCHANGED <<exitCode, failure>>
       ELSE /\ pc' = "exited"
            /\ exitCode' = 1
            /\ failure' = "config"
            /\ UNCHANGED baseProfile
    /\ UNCHANGED <<config, pwReady, initial, userId,
                   cycle, trace, valid, lookupErr, tokenCode, cred, nextCred,
                   request, sessProfile, roleSessionName, store, store0, exportFile,
                   slept>>

\* the error of NewProfileWriter not looked at
NewProfileWriter_ErrIgnored ==
    /\ pc = "newProfileWriter"
    /\ pc' = "loop"
    /\ \E ok \in BOOLEAN : pwReady' = ok
    /\ UNCHANGED <<config, initial, userId, exitCode, failure, baseProfile, cycle,
                   trace, valid, lookupErr, tokenCode, cred, nextCred, request,
                   sessProfile, roleSessionName, store, store0, exportFile, slept>>

\* main, swamp.go:171-174
NewProfileWriter ==
    /\ pc = "newProfileWriter"
    /\ \E ok \in BOOLEAN :
         IF ok
         THEN pc' = "loop" /\ pwReady' = TRUE /\ UNCHANGED <<exitCode, failure>>
         ELSE Die("profileWriter") /\ UNCHANGED pwReady
    /\ UNCHANGED <<config, initial, userId, baseProfile, cycle, trace, valid,
                   lookupErr, tokenCode, cred, nextCred, request, sessProfile,
                   roleSessionName, store, store0, exportFile, slept>>

\* main, swamp.go:175-179: top of the for loop.
LoopHead ==
    /\ pc = "loop"
    /\ cycle < MaxCycles
    /\ cycle' = cycle + 1
    /\ trace' = <<>>
    /\ valid' = "unknown"
    /\ lookupErr' = "nil"
    /\ tokenCode' = <<>>
    /\ cred' = 0
    /\ request' = NoRequest
    /\ sessProfile' = ""
    /\ roleSessionName' = <<>>
    /\ userId' = <<>>
    /\ store0' = store
    /\ pc' = FirstStep(config)
    /\ UNCHANGED <<config, pwReady, initial,
                   exitCode, failure, baseProfile, nextCred, store,
                   exportFile, slept>>

\* ensureSessionTokenProfile, swamp.go:106-108, with validateSessionToken,
\* swamp.go:66-71, on getIntermediateSessionOptions (swamp.go:89-91).
ValidateSessionToken ==
    /\ pc = "validateSessionToken"
    /\ \/ \* session.Must panics: the session cannot be built
          /\ Panic("session:check")
          /\ UNCHANGED <<trace, valid, lookupErr, request>>
       \/ \* the identity lookup succeeds: err == nil
          /\ trace' = Append(trace, "check")
          /\ request' = [NoRequest EXCEPT !.api = "GetCallerIdentity",
                                          !.profile = getIntermediateSessionOptions(config)]
          /\ lookupErr' = "nil"
          /\ valid' = "true"
          /\ pc' = AfterCheck(TRUE)
          /\ UNCHANGED <<exitCode, failure>>
       \/ \* the identity lookup fails, for whatever reason
          /\ \E why \in LookupFailures :
               /\ trace' = Append(trace, "check")
               /\ request' = [NoRequest EXCEPT !.api = "GetCallerIdentity",
                                               !.profile = getIntermediateSessionOptions(config)]
               /\ lookupErr' = why
               /\ valid' = "false"
               /\ pc' = AfterCheck(FALSE)
               /\ UNCHANGED <<exitCode, failure>>
    /\ UNCHANGED <<config, pwReady, initial, userId,
                   baseProfile, cycle, tokenCode, cred, nextCred,
                   sessProfile, roleSessionName, store, store0, exportFile, slept>>

\* getSessionToken, swamp.go:74-76, on getBaseSessionOptions (swamp.go:93-95):
\* the session of the base profile, then getTokenCode, swamp.go:56-64, with
\* fetchTokenCode (35-43) and askForTokenCode (45-54).
GetTokenCode ==
    /\ pc = "getSessionToken"
    /\ \/ \* the command exits non-zero / the read fails
          /\ trace' = Append(trace, "mfa")
          /\ Die(IF config.mfaExec # "" THEN "mfaCommand" ELSE "mfaRead")
          /\ UNCHANGED tokenCode
       \/ \E raw \in RawInputs :
            /\ trace' = Append(trace, "mfa")
            /\ tokenCode' = cleanTokenCode(raw)
            /\ pc' = "issueSessionToken"
            /\ UNCHANGED <<exitCode, failure>>
       \/ \* session.Must panics: the session cannot be built
          /\ Panic("session:base")
          /\ UNCHANGED <<trace, tokenCode>>
    /\ UNCHANGED <<config, pwReady, initial, userId,
                   baseProfile, cycle, valid, lookupErr, cred, nextCred, request,
                   sessProfile, roleSessionName, store, store0, exportFile, slept>>

\* a failed sts:GetSessionToken answered by asking for a code again
IssueSessionToken_Retry ==
    /\ pc = "issueSessionToken"
    /\ trace' = Append(trace, "issue")
    /\ request' = [NoRequest EXCEPT !.api = "GetSessionToken",
                                    !.profile = getBaseSessionOptions(config),
                                    !.serial = config.tokenSerialNumber,
                                    !.code = tokenCode,
                                    !.duration = config.intermediateDuration]
    /\ \/ /\ Len(trace) < 4
          /\ failure' = "getSessionToken"
          /\ pc' = "getSessionToken"
          /\ UNCHANGED <<exitCode, cred, nextCred>>
       \/ /\ cred' = nextCred
          /\ nextCred' = nextCred + 1
          /\ pc' = "writeIntermediateProfile"
          /\ UNCHANGED <<exitCode, failure>>
    /\ UNCHANGED <<config, pwReady, initial, userId, baseProfile, cycle, valid,
                   lookupErr, tokenCode, sessProfile, roleSessionName, store,
                   store0, exportFile, slept>>

\* getSessionToken, swamp.go:77-86: sts:GetSessionToken on the base profile.
IssueSessionToken ==
    /\ pc = "issueSessionToken"
    /\ trace' = Append(trace, "issue")
    /\ request' = [NoRequest EXCEPT !.api = "GetSessionToken",
                                    !.profile = getBaseSessionOptions(config),
                                    !.serial = config.tokenSerialNumber,
                                    !.code = tokenCode,
                                    !.duration = config.intermediateDuration]
    /\ \/ /\ Die("getSessionToken")
          /\ UNCHANGED <<cred, nextCred>>
       \/ /\ cred' = nextCred
          /\ nextCred' = nextCred + 1
          /\ pc' = "writeIntermediateProfile"
          /\ UNCHANGED <<exitCode, failure>>
    /\ UNCHANGED <<config, pwReady, initial, userId,
                   baseProfile, cycle, valid, lookupErr, tokenCode, sessProfile,
                   roleSessionName, store, store0, exportFile, slept>>

\* the session token is fetched but never persisted
WriteIntermediateProfile_Skipped ==
    /\ pc = "writeIntermediateProfile"
    /\ pc' = "newSession"
    /\ UNCHANGED <<config, pwReady, initial, userId,
                   exitCode, failure, baseProfile, cycle, trace, valid,
                   lookupErr, tokenCode, cred, nextCred, request, sessProfile,
                   roleSessionName, store, store0, exportFile, slept>>

\* ensureSessionTokenProfile, swamp.go:110-112
WriteIntermediateProfile ==
    /\ pc = "writeIntermediateProfile"
    /\ trace' = Append(trace, "writeIntermediate")
    /\ \/ /\ Die("writeProfile")
          /\ UNCHANGED store
       \/ /\ store' = WriteProfile(store, cred, config.intermediateProfile,
                                   config.region)
          /\ pc' = "newSession"
          /\ UNCHANGED <<exitCode, failure>>
    /\ UNCHANGED <<config, pwReady, initial, userId,
                   baseProfile, cycle, valid, lookupErr, tokenCode, cred, nextCred,
                   request, sessProfile, roleSessionName, store0, exportFile, slept>>

\* main, swamp.go:181-182: the session of the target step.
NewSession ==
    /\ pc = "newSession"
    /\ \/ /\ Panic("session:target")
          /\ UNCHANGED sessProfile
       \/ /\ sessProfile' = baseProfile
          /\ pc' = "getCallerId"
          /\ UNCHANGED <<exitCode, failure>>
    /\ UNCHANGED <<config, pwReady, initial, userId,
                   baseProfile, cycle, trace, valid, lookupErr, tokenCode, cred,
                   nextCred, request, roleSessionName, store, store0, exportFile, slept>>

\* ensureTargetProfile, swamp.go:131-135, with getCallerId (22-29).
GetCallerId ==
    /\ pc = "getCallerId"
    /\ trace' = Append(trace, "callerId")
    /\ request' = [NoRequest EXCEPT !.api = "GetCallerIdentity",
                                    !.profile = sessProfile]
    /\ \/ /\ Die("getCallerId")
          /\ UNCHANGED <<userId, roleSessionName>>
       \/ \E arn \in CallerArns :
            /\ userId' = arn
            /\ roleSessionName' = RoleSessionNameOf(arn)
            /\ pc' = "assumeRole"
            /\ UNCHANGED <<exitCode, failure>>
    /\ UNCHANGED <<config, pwReady, initial, baseProfile, cycle, valid, lookupErr,
                   tokenCode, cred, nextCred, sessProfile, store, store0,
                   exportFile, slept>>

\* the error of sts:AssumeRole reported but not fatal
AssumeRole_NoDie ==
    /\ pc = "assumeRole"
    /\ trace' = Append(trace, "assume")
    /\ request' = [NoRequest EXCEPT !.api = "AssumeRole",
                                    !.profile = sessProfile,
                                    !.roleArn = config.roleArn,
                                    !.name = roleSessionName,
                                    !.duration = config.targetDuration]
    /\ \/ /\ failure' = "assumeRole"
          /\ pc' = "writeTargetProfile"
          /\ UNCHANGED <<exitCode, cred, nextCred>>
       \/ /\ cred' = nextCred
          /\ nextCred' = nextCred + 1
          /\ pc' = "writeTargetProfile"
          /\ UNCHANGED <<exitCode, failure>>
    /\ UNCHANGED <<config, pwReady, initial, userId,
                   baseProfile, cycle, valid, lookupErr, tokenCode,
                   sessProfile, roleSessionName, store, store0, exportFile, slept>>

\* ensureTargetProfile, swamp.go:137, with assumeRole (116-127).
AssumeRole ==
    /\ pc = "assumeRole"
    /\ trace' = Append(trace, "assume")
    /\ request' = [NoRequest EXCEPT !.api = "AssumeRole",
                                    !.profile = sessProfile,
                                    !.roleArn = config.roleArn,
                                    !.name = roleSessionName,
                                    !.duration = config.targetDuration]
    /\ \/ /\ Die("assumeRole")
          /\ UNCHANGED <<cred, nextCred>>
       \/ /\ cred' = nextCred
          /\ nextCred' = nextCred + 1
          /\ pc' = "writeTargetProfile"
          /\ UNCHANGED <<exitCode, failure>>
    /\ UNCHANGED <<config, pwReady, initial, userId,
                   baseProfile, cycle, valid, lookupErr, tokenCode, sessProfile,
                   roleSessionName, store, store0, exportFile, slept>>

\* an existing target section is taken as good and not written again
WriteTargetProfile_KeepExisting ==
    /\ pc = "writeTargetProfile"
    /\ trace' = Append(trace, "writeTarget")
    /\ \/ /\ Die("writeProfile")
          /\ UNCHANGED store
       \/ /\ store' = IF store[config.targetProfile].cred > 0
                       THEN store
                       ELSE WriteProfile(store, cred, config.targetProfile,
                                         config.region)
          /\ pc' = "export"
          /\ UNCHANGED <<exitCode, failure>>
    /\ UNCHANGED <<config, pwReady, initial, userId, baseProfile, cycle, valid,
                   lookupErr, tokenCode, cred, nextCred, request, sessProfile,
                   roleSessionName, store0, exportFile, slept>>

\* the target credentials written under the name of the base profile
WriteTargetProfile_WrongName ==
    /\ pc = "writeTargetProfile"
    /\ trace' = Append(trace, "writeTarget")
    /\ \/ /\ Die("writeProfile")
          /\ UNCHANGED store
       \/ /\ store' = WriteProfile(store, cred, config.profile, config.region)
          /\ pc' = "export"
          /\ UNCHANGED <<exitCode, failure>>
    /\ UNCHANGED <<config, pwReady, initial, userId, baseProfile, cycle, valid,
                   lookupErr, tokenCode, cred, nextCred, request, sessProfile,
                   roleSessionName, store0, exportFile, slept>>

\* the error of the target write not looked at
WriteTargetProfile_ErrIgnored ==
    /\ pc = "writeTargetProfile"
    /\ trace' = Append(trace, "writeTarget")
    /\ \/ /\ failure' = "writeProfile"
          /\ pc' = "export"
          /\ UNCHANGED <<exitCode, store>>
       \/ /\ store' = WriteProfile(store, cred, config.targetProfile,
                                   config.region)
          /\ pc' = "export"
          /\ UNCHANGED <<exitCode, failure>>
    /\ UNCHANGED <<config, pwReady, initial, userId, baseProfile, cycle, valid,
                   lookupErr, tokenCode, cred, nextCred, request, sessProfile,
                   roleSessionName, store0, exportFile, slept>>

\* ensureTargetProfile, swamp.go:138-140
WriteTargetProfile ==
    /\ pc = "writeTargetProfile"
    /\ trace' = Append(trace, "writeTarget")
    /\ \/ /\ Die("writeProfile")
          /\ UNCHANGED store
       \/ /\ store' = WriteProfile(store, cred, config.targetProfile,
                                   config.region)
          /\ pc' = "export"
          /\ UNCHANGED <<exitCode, failure>>
    /\ UNCHANGED <<config, pwReady, initial, userId,
                   baseProfile, cycle, valid, lookupErr, tokenCode, cred, nextCred,
                   request, sessProfile, roleSessionName, store0, exportFile, slept>>

\* main, swamp.go:186-188, with writeProfileToFile (143-151).
Export ==
    /\ pc = "export"
    /\ IF ~ExportRequested(config)
       THEN /\ pc' = "renew"
            /\ UNCHANGED <<exitCode, failure, trace, exportFile>>
       ELSE /\ trace' = Append(trace, "export")
            /\ \/ \* os.Create fails
                  /\ Die("exportCreate")
                  /\ UNCHANGED exportFile
               \/ \* the file is truncated and the three lines are written
                  /\ exportFile' = ExportLines(config)
                  /\ pc' = "renew"
                  /\ UNCHANGED <<exitCode, failure>>
               \/ \* the file is truncated, fmt.Fprintf fails; its error is
                  \* dropped and so is the one of the deferred file.Close
                  /\ \E part \in Prefixes(ExportLines(config)) \ {ExportLines(config)} :
                       exportFile' = part
                  /\ failure' = "exportWrite"
                  /\ pc' = "renew"
                  /\ UNCHANGED exitCode
    /\ UNCHANGED <<config, pwReady, initial, userId,
                   baseProfile, cycle, valid, lookupErr, tokenCode, cred,
                   nextCred, request, sessProfile, roleSessionName, store, store0,
                   slept>>

\* main, swamp.go:190-192
RenewDecision ==
    /\ pc = "renew"
    /\ pc' = AfterCycle(config)
    /\ exitCode' = IF pc' = "done" THEN 0 ELSE exitCode
    /\ UNCHANGED <<config, pwReady, initial, userId,
                   failure, baseProfile, cycle, trace, valid, lookupErr,
                   tokenCode, cred, nextCred, request, sessProfile,
                   roleSessionName, store, store0, exportFile, slept>>

\* main, swamp.go:193
Sleep ==
    /\ pc = "sleep"
    /\ slept' = Append(slept, SleepSeconds(config))
    /\ pc' = "loop"
    /\ UNCHANGED <<config, pwReady, initial, userId,
                   exitCode, failure, baseProfile, cycle, trace, valid,
                   lookupErr, tokenCode, cred, nextCred, request, sessProfile,
                   roleSessionName, store, store0, exportFile>>

Next ==
    \/ ValidateConfig
    \/ NewProfileWriter
    \/ LoopHead
    \/ ValidateSessionToken
    \/ GetTokenCode
    \/ IssueSessionToken
    \/ WriteIntermediateProfile
    \/ NewSession
    \/ GetCallerId
    \/ AssumeRole
    \/ WriteTargetProfile
    \/ Export
    \/ RenewDecision
    \/ Sleep


Spec == Init /\ [][Next]_vars

-----------------------------------------------------------------------------
(* Properties *)

Mfa == config.tokenSerialNumber # ""

Count(tr, e) == Cardinality({ i \in DOMAIN tr : tr[i] = e })

IsPrefix(a, b) == Len(a) <= Len(b) /\ SubSeq(b, 1, Len(a)) = a

\* the iteration got past the target profile write
PastTargetWrite == pc \in {"export", "renew", "sleep", "done"} \/ (pc = "loop" /\ cycle > 0)

\* the iteration is over, one way or the other
CycleOver == pc \in {"renew", "sleep", "done", "exited", "panicked"} \/ (pc = "loop" /\ cycle > 0)

RefreshCalls ==
    <<"check", "mfa", "issue", "writeIntermediate",
      "callerId", "assume", "writeTarget", "export">>

\* C1: with an MFA serial configured, an iteration whose validity check
\* returned true acquires no MFA code, sends no GetSessionToken request and
\* leaves the intermediate section of the store as it was.
C1_ValidSkipsRefresh ==
    (Mfa /\ valid = "true") =>
        /\ Count(trace, "mfa") = 0
        /\ Count(trace, "issue") = 0
        /\ Count(trace, "writeIntermediate") = 0
        /\ tokenCode = <<>>
        /\ request.api # "GetSessionToken"
        /\ store[config.intermediateProfile] = store0[config.intermediateProfile]

C1_Witness ==
    /\ Mfa /\ valid = "true" /\ pc = "renew"
    /\ Count(trace, "assume") = 1

\* C2 as stated: every iteration with an MFA serial whose validity check
\* returned false holds exactly one GetSessionToken call by the time it is
\* over, made before any AssumeRole call.
C2_ExactlyOneIssuance ==
    (Mfa /\ valid = "false" /\ CycleOver) =>
        /\ Count(trace, "issue") = 1
        /\ \A i, j \in DOMAIN trace :
             (trace[i] = "issue" /\ trace[j] = "assume") => i < j

\* C2 amended: in such an iteration at most one GetSessionToken call is made,
\* none is made after an AssumeRole call, exactly one has been made whenever
\* the iteration reaches role assumption, and an iteration that ends without
\* one is a run that terminated on a failed session build or a failed MFA
\* acquisition.
C2_OneIssuanceBeforeAssume ==
    (Mfa /\ valid = "false") =>
        /\ Count(trace, "issue") <= 1
        /\ \A i, j \in DOMAIN trace :
             (trace[i] = "issue" /\ trace[j] = "assume") => i < j
        /\ (Count(trace, "callerId") > 0 \/ Count(trace, "assume") > 0 \/ PastTargetWrite)
               => Count(trace, "issue") = 1
        /\ (CycleOver /\ Count(trace, "issue") = 0)
               => /\ pc \in {"exited", "panicked"}
                  /\ failure \in {"session:base", "mfaCommand", "mfaRead"}

C2_Witness ==
    /\ Mfa /\ valid = "false" /\ pc = "writeTargetProfile"
    /\ Count(trace, "issue") = 1 /\ Count(trace, "assume") = 1

\* C3: with an MFA serial configured and the validity check false, the calls
\* of an iteration are made in the order check, MFA code, GetSessionToken,
\* intermediate write, caller identity, AssumeRole, target write (then the
\* export); an iteration that got past the target write made each once, made
\* exactly two profile writes and left the two fresh credentials in the
\* intermediate and the target section.
C3_RefreshCycleOrder ==
    (Mfa /\ valid = "false") =>
        /\ IsPrefix(trace, RefreshCalls)
        /\ PastTargetWrite =>
             /\ IsPrefix(SubSeq(RefreshCalls, 1, 7), trace)
             /\ Count(trace, "mfa") = 1
             /\ Count(trace, "issue") = 1
             /\ Count(trace, "writeIntermediate") + Count(trace, "writeTarget") = 2
             /\ store[config.intermediateProfile].cred = nextCred - 2
             /\ store[config.targetProfile].cred = nextCred - 1
             /\ store0[config.intermediateProfile].cred < nextCred - 2

C3_Witness ==
    /\ Mfa /\ valid = "false" /\ pc = "renew" /\ failure = "none"
    /\ Len(trace) >= 7

\* C4: without MFA serial, with renew unset and export set, the run never
\* sleeps and never starts a second iteration, and a run that ends without
\* error made exactly the calls caller identity, AssumeRole, target write,
\* export, wrote the target section and no other, and left the export file
\* naming the target profile.
C4_SingleShotExport ==
    (~Mfa /\ ~config.renew /\ config.exportProfile) =>
        /\ slept = <<>>
        /\ pc # "sleep"
        /\ cycle <= 1
        /\ (pc = "export" /\ exitCode = -1) => ENABLED Export
        /\ (pc = "renew" /\ exitCode = -1) => ENABLED RenewDecision
        /\ (pc = "done" /\ failure = "none") =>
             /\ exitCode = 0
             /\ cycle = 1
             /\ trace = <<"callerId", "assume", "writeTarget", "export">>
             /\ store[config.targetProfile] =
                    [cred |-> nextCred - 1, region |-> config.region]
             /\ nextCred = 2
             /\ \A n \in SectionNames \ {config.targetProfile} : store[n] = store0[n]
             /\ exportFile = ExportLines(config)

C4_Witness ==
    /\ ~Mfa /\ ~config.renew /\ config.exportProfile
    /\ pc = "done" /\ failure = "none"

\* C5: whenever any call of the run has failed, the process has terminated.
C5_EveryErrorFatal ==
    failure # "none" => pc \in {"exited", "panicked"}

\* C6: when the caller identity lookup or the AssumeRole call of the target
\* step fails, the process exits and no target write is made in that
\* iteration: the target section is as it was when the iteration began.
C6_NoTargetWriteOnProviderError ==
    failure \in {"getCallerId", "assumeRole"} =>
        /\ pc = "exited"
        /\ exitCode = 1
        /\ Count(trace, "writeTarget") = 0
        /\ store[config.targetProfile] = store0[config.targetProfile]

C6_Witness ==
    /\ failure = "assumeRole" /\ pc = "exited"
    /\ cycle = 2
    /\ store[config.targetProfile].cred > 0

\* C7: the validity check never terminates the process: whatever goes wrong
\* inside it, it answers false and the refresh path is taken.
C7_CheckNeverTerminates ==
    /\ failure # "session:check"
    /\ valid = "true" => lookupErr = "nil"
    /\ valid = "false" => lookupErr \in LookupFailures
    /\ (Mfa /\ Len(trace) >= 2) =>
           trace[2] = IF valid = "true" THEN "callerId" ELSE "mfa"

\* C8: without renew a run never sleeps, makes one iteration and ends in
\* Done; with renew it never reaches Done, every completed iteration is
\* followed by one sleep of floor(targetDuration / 2) seconds, and the
\* iteration after it starts at the same first call (the validity check with
\* an MFA serial, the caller identity lookup of the target step without).
C8_RenewalDecision ==
    /\ ~config.renew =>
         /\ slept = <<>>
         /\ pc \notin {"sleep"}
         /\ cycle <= 1
         /\ pc = "done" => (cycle = 1 /\ exitCode = 0)
    /\ config.renew =>
         /\ pc # "done"
         /\ exitCode # 0
         /\ pc = "loop" => Len(slept) = cycle
         /\ (pc # "loop" /\ cycle > 0) => Len(slept) = cycle - 1
    /\ \A i \in DOMAIN slept :
         /\ 2 * slept[i] <= config.targetDuration
         /\ config.targetDuration < 2 * slept[i] + 2
    /\ trace # <<>> => trace[1] = IF Mfa THEN "check" ELSE "callerId"

C8_Witness ==
    /\ config.renew /\ cycle = MaxCycles /\ cycle >= 2
    /\ Len(slept) = cycle - 1
    /\ config.targetDuration = MinDuration + 1
    /\ pc = "sleep"

\* C9: without an MFA serial no iteration makes a validity check, acquires
\* an MFA code, sends a GetSessionToken request or writes the intermediate
\* section, and the first call of every iteration is the caller identity
\* lookup of the target step.
C9_NoMfaNoIntermediateStep ==
    ~Mfa =>
        /\ pc \notin {"validateSessionToken", "getSessionToken",
                      "issueSessionToken", "writeIntermediateProfile"}
        /\ \A e \in {"check", "mfa", "issue", "writeIntermediate"} : Count(trace, e) = 0
        /\ valid = "unknown"
        /\ tokenCode = <<>>
        /\ request.api # "GetSessionToken"
        /\ store[config.intermediateProfile] = store0[config.intermediateProfile]
        /\ trace # <<>> => trace[1] = "callerId"

C9_Witness ==
    /\ ~Mfa /\ cycle = 2 /\ pc = "renew"
    /\ store0["inter"] = OldSection

\* C10: the caller identity lookup and the AssumeRole call of the target step
\* are sent on a session of the intermediate profile when an MFA serial is
\* configured and of the base profile otherwise, in every iteration.
C10_TargetStepProfile ==
    LET targetStepRequest ==
            \/ request.api = "AssumeRole"
            \/ request.api = "GetCallerIdentity" /\ trace # <<>> /\ Last(trace) = "callerId"
    IN  targetStepRequest =>
            request.profile = IF Mfa THEN config.intermediateProfile
                                     ELSE config.profile

C10_Witness ==
    /\ Mfa /\ cycle = 2
    /\ request.api = "AssumeRole"
    /\ request.profile = "inter"

\* the run has called the provider or the MFA source, or touched a file
CoreStarted ==
    \/ cycle > 0
    \/ trace # <<>>
    \/ request # NoRequest
    \/ tokenCode # <<>>
    \/ nextCred # 1
    \/ store # initial.store
    \/ exportFile # initial.exportFile

\* C11: the first iteration starts only with a configuration that passed
\* Validate and with the profile writer in hand; a run that failed either
\* has exited without any provider call, MFA acquisition or write.
C11_NoCoreBeforeSetup ==
    /\ CoreStarted => (Validate(config) /\ pwReady)
    /\ pc \notin {"start", "newProfileWriter", "exited"} => (Validate(config) /\ pwReady)
    /\ failure \in {"config", "profileWriter"} =>
         (pc = "exited" /\ exitCode = 1 /\ ~CoreStarted)
    /\ ~Validate(config) => pc \in {"start", "exited"}

C11_Witness ==
    /\ failure = "profileWriter" /\ pc = "exited"
    /\ Mfa /\ config.mfaExec = ""

\* C12: with the export flag unset no iteration makes an export call, the
\* export file stays as the run found it, and the call before the renewal
\* decision is the target write; with the flag set every iteration that
\* reaches the renewal decision has made exactly one export call, after the
\* target write.
C12_ExportOnlyIfRequested ==
    LET pastExport == pc \in {"renew", "sleep", "done"} \/ (pc = "loop" /\ cycle > 0)
    IN  /\ ~config.exportProfile =>
             /\ Count(trace, "export") = 0
             /\ exportFile = initial.exportFile
             /\ pastExport => Last(trace) = "writeTarget"
        /\ config.exportProfile =>
             /\ Count(trace, "export") <= 1
             /\ pastExport =>
                  /\ Count(trace, "export") = 1
                  /\ Last(trace) = "export"
                  /\ trace[Len(trace) - 1] = "writeTarget"
                  /\ exportFile \in Prefixes(ExportLines(config))

C12_Witness ==
    /\ ~config.exportProfile /\ config.renew
    /\ cycle = 2 /\ pc = "renew"
    /\ exportFile # <<>>

\* the iteration got past the export step
PastExport == pc \in {"renew", "sleep", "done"} \/ (pc = "loop" /\ cycle > 0)

\* C13: whenever writeProfileToFile has returned, the export file holds
\* exactly the three lines: the one naming the configured target profile and
\* the two unset lines, whatever it held before.
C13_ExportFileThreeLines ==
    (PastExport /\ Count(trace, "export") = 1) =>
        /\ Len(exportFile) = 3
        /\ exportFile = ExportLines(config)

\* C14: the target section holds, once an iteration got past the target
\* write, the credentials of the AssumeRole call of that iteration, which are
\* newer than everything the store held when the iteration began; before the
\* target write of an iteration the section is the one the previous
\* iteration left.
C14_TargetLastWriteWins ==
    LET t == config.targetProfile
    IN  /\ PastTargetWrite =>
             /\ store[t] = [cred |-> nextCred - 1, region |-> config.region]
             /\ request.api = "AssumeRole"
             /\ cred = store[t].cred
             /\ \A n \in SectionNames : store0[n].cred < store[t].cred
             /\ \A n \in SectionNames \ {t} : store[n].cred # store[t].cred
        /\ (cycle > 0 /\ Count(trace, "writeTarget") = 0) => store[t] = store0[t]
        /\ (pc = "exited" /\ failure = "writeProfile") => store[t] = store0[t]

C14_Witness ==
    /\ cycle = 2 /\ pc = "renew"
    /\ store0[config.targetProfile].cred > 0
    /\ store[config.targetProfile].cred > store0[config.targetProfile].cred

\* C15: over the whole run every section other than the intermediate and
\* the target profile is as the run found it (the intermediate one too when
\* no MFA serial is configured), and no section the run found is gone.
C15_OnlyOwnSectionsWritten ==
    /\ \A n \in SectionNames \ {config.intermediateProfile, config.targetProfile} :
         store[n] = initial.store[n]
    /\ ~Mfa => \A n \in SectionNames \ {config.targetProfile} :
                   store[n] = initial.store[n]
    /\ \A n \in SectionNames :
         initial.store[n] # NoSection => store[n] # NoSection
    /\ \A n \in SectionNames :
         store[n] # initial.store[n] => (store[n].cred > 0 /\ store[n].region = config.region)

C15_Witness ==
    /\ Mfa /\ cycle = 2 /\ pc = "renew"
    /\ config.targetProfile = "target"
    /\ store["inter"].cred > 0 /\ store["target"].cred > 0
    /\ store["base"] = OldSection /\ store["other"] = OldSection

\* s ends with t
EndsWith(s, t) ==
    Len(t) <= Len(s) /\ SubSeq(s, Len(s) - Len(t) + 1, Len(s)) = t

\* C16: the RoleSessionName of every AssumeRole request is the text of the
\* caller's ARN after its last "/": it holds no "/", the ARN ends with it,
\* and it is either the whole ARN (an ARN without "/") or preceded by a "/";
\* for an ARN ending in "/alice" it is "alice".
C16_RoleSessionNameIsLastSegment ==
    request.api = "AssumeRole" =>
        LET name == request.name
            k    == Len(userId) - Len(name)
        IN  /\ userId \in CallerArns
            /\ \A i \in DOMAIN name : name[i] # "/"
            /\ EndsWith(userId, name)
            /\ IF \E i \in DOMAIN userId : userId[i] = "/"
               THEN k >= 1 /\ userId[k] = "/"
               ELSE name = userId
            /\ EndsWith(userId, <<"/", "alice">>) => name = <<"alice">>

C16_Witness ==
    /\ request.api = "AssumeRole"
    /\ userId = <<"arn:aws:sts::1:assumed-role", "/", "dev", "/", "bob">>
    /\ request.name = <<"bob">>

\* the characters Go's unicode.IsSpace holds among the atoms of the model
Whitespace == {" ", "\t", "\r", "\n"}

\* C17: the MFA code handed to the provider has no leading and no trailing
\* whitespace, and trimming it again leaves it unchanged.
C17_TrimStripsWhitespace ==
    tokenCode # <<>> =>
        /\ Head(tokenCode) \notin Whitespace
        /\ Last(tokenCode) \notin Whitespace
        /\ cleanTokenCode(tokenCode) = tokenCode

\* the positions of call e in the trace of the iteration
At(tr, e) == { i \in DOMAIN tr : tr[i] = e }

\* C18: every GetSessionToken request is sent on the base profile, not the
\* intermediate one, with the configured MFA serial, the code acquired in
\* this iteration and the configured intermediate duration; once the
\* intermediate write is done, the intermediate section holds the credentials
\* that request returned, with the configured region.
C18_RefreshRequestAndWrite ==
    /\ request.api = "GetSessionToken" =>
         /\ request.profile = config.profile
         /\ request.profile # config.intermediateProfile
         /\ request.serial = config.tokenSerialNumber
         /\ request.serial # ""
         /\ request.duration = config.intermediateDuration
         /\ request.code = tokenCode
         /\ \E raw \in RawInputs : request.code = cleanTokenCode(raw)
         /\ At(trace, "mfa") # {}
    /\ (valid = "false" /\ pc \in {"writeIntermediateProfile", "newSession",
                                   "getCallerId", "assumeRole"}) =>
         /\ request.api \in {"GetSessionToken", "GetCallerIdentity"}
         /\ cred = nextCred - 1
         /\ pc # "writeIntermediateProfile" =>
              store[config.intermediateProfile] =
                  [cred |-> cred, region |-> config.region]
    /\ (Mfa /\ At(trace, "writeIntermediate") = {}) =>
         store[config.intermediateProfile] = store0[config.intermediateProfile]

C18_Witness ==
    /\ valid = "false" /\ pc = "newSession" /\ cycle = 2
    /\ request.api = "GetSessionToken"
    /\ request.code = <<"123456">>
    /\ store["inter"].cred = 3

\* C19: with an MFA serial configured, every iteration starts with one
\* validity check; an MFA code is acquired at most once per iteration and
\* only after a check that returned false; every GetSessionToken request
\* follows the acquisition of its code in the same iteration, there is at
\* most one per iteration, and exactly one once a code was acquired and the
\* request step has run.
C19_FreshCheckAndCodePerIteration ==
    Mfa =>
        /\ trace # <<>> => trace[1] = "check"
        /\ Count(trace, "check") <= 1
        /\ (cycle > 0 /\ pc # "validateSessionToken" /\ failure # "session:check")
               => Count(trace, "check") = 1
        /\ Count(trace, "mfa") <= 1
        /\ Count(trace, "mfa") = 1 => (valid = "false" /\ trace[2] = "mfa")
        /\ Count(trace, "issue") <= Count(trace, "mfa")
        /\ \A i \in At(trace, "issue") : i - 1 \in At(trace, "mfa")
        /\ tokenCode # <<>> =>
             /\ Count(trace, "mfa") = 1
             /\ pc # "issueSessionToken" => Count(trace, "issue") = 1
             /\ request.api = "GetSessionToken" => request.code = tokenCode
        /\ tokenCode = <<>> => request.api # "GetSessionToken"

C19_Witness ==
    /\ Mfa /\ config.renew /\ cycle = 2
    /\ trace = <<"check", "mfa", "issue">> /\ nextCred = 4
    /\ Len(slept) = 1

\* C20: an export call of an iteration comes after the target write of that
\* iteration, and whenever the run has changed the export file or made an
\* export call, the target section named in it exists in the store, written
\* by this run.
C20_ExportAfterTargetWrite ==
    /\ \A i \in At(trace, "export") : i - 1 \in At(trace, "writeTarget")
    /\ (At(trace, "export") # {} \/ exportFile # initial.exportFile) =>
         /\ store[config.targetProfile] # NoSection
         /\ store[config.targetProfile].cred > 0
         /\ store[config.targetProfile].region = config.region
    /\ At(trace, "export") # {} =>
         store[config.targetProfile].cred > store0[config.targetProfile].cred
    /\ \A i \in DOMAIN exportFile :
         (exportFile # initial.exportFile /\ i = 1) =>
             exportFile[i] = <<"export AWS_PROFILE=", config.targetProfile>>

C20_Witness ==
    /\ pc = "renew" /\ Last(trace) = "export"
    /\ exportFile = ExportLines(config)
    /\ initial.store[config.targetProfile] = NoSection
    /\ store[config.targetProfile].cred > 0
====
